---- MODULE Spec2Model ----
(***************************************************************************)
(* RegistOrderMap (src/src/lib.rs): a map that keeps its entries in a      *)
(* Vec in registration order, with linear-scan lookup, and serde           *)
(* Serialize / Deserialize implementations.                                *)
(*                                                                         *)
(* The model is a client holding one map value and calling the public      *)
(* operations on it. Sequences are 1-based here, the Vec is 0-based: the   *)
(* index i of the source is i + 1 below.                                   *)
(***************************************************************************)
EXTENDS Integers, Sequences, FiniteSets, TLC

\* ---------------------------------------------------------------- bounds
\* Most (key, value) pairs one map is given over its life: the members of
\* the constructing array or reader plus the later inserts.
MaxPairs == 3
\* Largest capacity asked of with_capacity / largest size_hint of a reader.
MaxCap == 2

\* Keys and values, as in the tests of the source (lib.rs 216-284).
Keys == {"key1", "key2", "key3"}
Vals == {10, 20}
Pairs == Keys \X Vals

SeqsUpTo(n) == UNION {[1..m -> Pairs] : m \in 0..n}
\* The arrays a map is built from, and the member sequences a reader yields.
Arrays == SeqsUpTo(MaxPairs)

\* ---------------------------------------------------------------- Option / Result
None == [some |-> FALSE]
Some(x) == [some |-> TRUE, val |-> x]
Err == [ok |-> FALSE]
Ok(x) == [ok |-> TRUE, val |-> x]

Max(a, b) == IF a >= b THEN a ELSE b

\* ---------------------------------------------------------------- Vec<Entry<K, V>>
\* A Vec is its items and its reserved capacity.
VecNew == [items |-> <<>>, cap |-> 0]
VecWithCapacity(n) == [items |-> <<>>, cap |-> n]
\* Vec::push: a full Vec grows (amortised doubling, at least 4) before the
\* element is written.
VecPush(vec, e) ==
    [items |-> Append(vec.items, e),
     cap   |-> IF Len(vec.items) = vec.cap
               THEN Max(4, Max(2 * vec.cap, Len(vec.items) + 1))
               ELSE vec.cap]

\* struct Entry { key, val }
Entry(k, v) == [key |-> k, val |-> v]

\* ---------------------------------------------------------------- RegistOrderMap
\* Default::default / new(): an empty Vec.
default == [entries |-> VecNew]
new == default

\* A variant of with_capacity: the Vec is filled with `capacity` blank entries
\* instead of being reserved.
with_capacity_Filled(capacity) ==
    [entries |-> [items |-> [i \in 1..capacity |-> Entry("", 0)], cap |-> capacity]]

with_capacity(capacity) == [entries |-> VecWithCapacity(capacity)]

\* Iterator::position over self.entries.iter(): the first index whose key
\* equals k.
RECURSIVE position(_, _, _)
position(items, k, i) ==
    IF i > Len(items) THEN None
    ELSE IF items[i].key = k THEN Some(i)
    ELSE position(items, k, i + 1)

find(self, k) == position(self.entries.items, k, 1)

\* A variant of get: a miss answers with the first entry's value.
get_OrFirst(self, k) ==
    LET r == find(self, k)
    IN  IF r.some THEN Some(self.entries.items[r.val].val)
        ELSE IF self.entries.items # <<>> THEN Some(self.entries.items[1].val)
        ELSE None

get(self, k) ==
    LET r == find(self, k)
    IN  IF r.some THEN Some(self.entries.items[r.val].val) ELSE None

\* Variants of insert, each a slip the code could have made.
\* A present key keeps its old value.
insert_KeepOld(self, k, v) ==
    IF find(self, k).some THEN self
    ELSE [self EXCEPT !.entries = VecPush(self.entries, Entry(k, v))]

\* A present key is removed and registered again at the end.
insert_MoveToEnd(self, k, v) ==
    LET r == find(self, k)
        items == self.entries.items
        rest == IF r.some
                THEN SubSeq(items, 1, r.val - 1) \o SubSeq(items, r.val + 1, Len(items))
                ELSE items
    IN  [self EXCEPT !.entries = VecPush([self.entries EXCEPT !.items = rest],
                                         Entry(k, v))]

\* A new key is registered at the front.
insert_Prepend(self, k, v) ==
    LET r == find(self, k)
    IN  IF r.some
        THEN [self EXCEPT !.entries.items[r.val].val = v]
        ELSE [self EXCEPT !.entries.items = <<Entry(k, v)>> \o @]

\* No lookup: every pair is pushed.
insert_AlwaysPush(self, k, v) ==
    [self EXCEPT !.entries = VecPush(self.entries, Entry(k, v))]

\* The new value of a present key is written one entry too far.
insert_UpdateNext(self, k, v) ==
    LET r == find(self, k)
        n == Len(self.entries.items)
    IN  IF r.some
        THEN [self EXCEPT !.entries.items[IF r.val < n THEN r.val + 1 ELSE n].val = v]
        ELSE [self EXCEPT !.entries = VecPush(self.entries, Entry(k, v))]

insert(self, k, v) ==
    LET r == find(self, k)
    IN  IF r.some
        THEN [self EXCEPT !.entries.items[r.val].val = v]
        ELSE [self EXCEPT !.entries = VecPush(self.entries, Entry(k, v))]

is_empty(self) == self.entries.items = <<>>

len(self) == Len(self.entries.items)

\* iter() and Iter::next: the pairs (&key, &val) of the entries, first to
\* last.
iter(self) ==
    [i \in 1..Len(self.entries.items) |->
        <<self.entries.items[i].key, self.entries.items[i].val>>]

\* std::slice::Iter over the entries: the entries it has not visited yet.
SliceIter(items) == [rest |-> items]

\* RegistOrderMap::iter: Iter { inner: self.entries.iter() }
Iter(self) == [inner |-> SliceIter(self.entries.items)]

\* A variant of next: the entries are taken from the back (next_back).
next_Back(it) ==
    LET rest == it.inner.rest
    IN  IF rest = <<>>
        THEN [it |-> it, item |-> None]
        ELSE [it   |-> [inner |-> [rest |-> SubSeq(rest, 1, Len(rest) - 1)]],
              item |-> Some(<<rest[Len(rest)].key, rest[Len(rest)].val>>)]

\* Iterator::next for Iter: the iterator after the call, and the item.
next(it) ==
    LET rest == it.inner.rest
    IN  IF rest = <<>>
        THEN [it |-> it, item |-> None]
        ELSE [it   |-> [inner |-> [rest |-> Tail(rest)]],
              item |-> Some(<<Head(rest).key, Head(rest).val>>)]

\* Debug for a key (a string: the text in double quotes; the keys of the
\* model hold nothing to escape) and for a value (an integer: its digits).
fmt_key(k) == "\"" \o k \o "\""
fmt_val(v) == ToString(v)

\* Debug for Entry: debug_struct("Entry").field("key", ..).field("val", ..)
Entry_fmt(e) ==
    "Entry { key: " \o fmt_key(e.key) \o ", val: " \o fmt_val(e.val) \o " }"

\* DebugList::entries: the items, separated by ", ".
RECURSIVE debug_list_entries(_, _)
debug_list_entries(items, i) ==
    IF i > Len(items) THEN ""
    ELSE (IF i > 1 THEN ", " ELSE "") \o Entry_fmt(items[i])
         \o debug_list_entries(items, i + 1)

\* A variant of fmt: the list shows the keys alone.
fmt_KeysOnly(self) ==
    LET RECURSIVE keys(_)
        keys(i) == IF i > len(self) THEN ""
                   ELSE (IF i > 1 THEN ", " ELSE "")
                        \o fmt_key(self.entries.items[i].key) \o keys(i + 1)
    IN  "[" \o keys(1) \o "]"

\* Debug for RegistOrderMap: f.debug_list().entries(self.entries.iter()).finish()
fmt(self) == "[" \o debug_list_entries(self.entries.items, 1) \o "]"

\* A variant of clone: the copy stops one entry short.
clone_DropsLast(self) ==
    LET items == self.entries.items
        n == IF items = <<>> THEN 0 ELSE Len(items) - 1
    IN  [entries |-> [items |-> [i \in 1..n |-> Entry(items[i].key, items[i].val)],
                      cap   |-> n]]

\* #[derive(Clone)] for RegistOrderMap and Entry: Vec::clone makes a new Vec
\* of exactly len() slots and clones each entry (its key and its val) into it.
clone(self) ==
    LET items == self.entries.items
    IN  [entries |-> [items |-> [i \in 1..Len(items) |->
                                    Entry(items[i].key, items[i].val)],
                      cap   |-> Len(items)]]

\* A variant of from: the array is walked last to first.
from_Reversed(arr) ==
    [entries |-> [items |-> [i \in 1..Len(arr) |->
                                Entry(arr[Len(arr) + 1 - i][1], arr[Len(arr) + 1 - i][2])],
                  cap   |-> Len(arr)]]

\* From<[(K, V); N]>: arr.iter().map(|e| Entry{..}).collect(); collect
\* reserves exactly N.
from(arr) ==
    [entries |-> [items |-> [i \in 1..Len(arr) |-> Entry(arr[i][1], arr[i][2])],
                  cap   |-> Len(arr)]]

\* ---------------------------------------------------------------- serde
\* The writer (a Serializer and its SerializeMap) is outside the map: it
\* records what it is handed, and `fault` is the call it fails on, if any:
\* call 0 is serialize_map, call i the i-th serialize_entry, call n + 1 end.
Faulty(fault, call) == fault.some /\ fault.val = call

\* for (k, v) in self.iter() { map.serialize_entry(k, v)?; }  map.end()
RECURSIVE serialize_entries(_, _, _, _)
serialize_entries(it, i, fault, handed) ==
    IF i > Len(it)
    THEN [ok |-> ~Faulty(fault, i), members |-> handed]
    ELSE IF Faulty(fault, i)
         THEN [ok |-> FALSE, members |-> Append(handed, it[i])]
         ELSE serialize_entries(it, i + 1, fault, Append(handed, it[i]))

Reverse(s) == [i \in 1..Len(s) |-> s[Len(s) + 1 - i]]

\* A variant of serialize: the entries are written last to first.
serialize_Reversed(self, fault) ==
    LET declared == Some(len(self))
    IN  IF Faulty(fault, 0)
        THEN [ok |-> FALSE, declared |-> declared, members |-> <<>>]
        ELSE LET r == serialize_entries(Reverse(iter(self)), 1, fault, <<>>)
             IN  [ok |-> r.ok, declared |-> declared, members |-> r.members]

\* Serialize::serialize: what the writer was handed, and whether Ok.
serialize(self, fault) ==
    LET declared == Some(len(self))
    IN  IF Faulty(fault, 0)
        THEN [ok |-> FALSE, declared |-> declared, members |-> <<>>]
        ELSE LET r == serialize_entries(iter(self), 1, fault, <<>>)
             IN  [ok |-> r.ok, declared |-> declared, members |-> r.members]

\* The reader (a MapAccess): the members it yields, its size_hint, and the
\* next_entry call it fails on, if any (call Len(members) + 1 is the one that
\* would report the end).
Reader(members, hint, fault) == [members |-> members, hint |-> hint, fault |-> fault]

unwrap_or(opt, d) == IF opt.some THEN opt.val ELSE d

\* while let Some((key, value)) = access.next_entry()? { map.insert(key, value); }
RECURSIVE visit_entries(_, _, _)
visit_entries(map, access, i) ==
    IF Faulty(access.fault, i) THEN Err
    ELSE IF i > Len(access.members) THEN Ok(map)
    ELSE visit_entries(insert(map, access.members[i][1], access.members[i][2]),
                       access, i + 1)

\* Variants of visit_map.
\* The first member is fetched and dropped.
visit_map_DropsFirst(access) ==
    IF Faulty(access.fault, 1) THEN Err
    ELSE visit_entries(with_capacity(unwrap_or(access.hint, 0)), access, 2)

\* The members are collected as they come, as From does, with no lookup.
visit_map_Collect(access) ==
    IF \E c \in 1..(Len(access.members) + 1) : Faulty(access.fault, c) THEN Err
    ELSE Ok(from(access.members))

\* A failing next_entry ends the loop and the map built so far is returned.
RECURSIVE visit_entries_Partial(_, _, _)
visit_entries_Partial(map, access, i) ==
    IF Faulty(access.fault, i) \/ i > Len(access.members) THEN Ok(map)
    ELSE visit_entries_Partial(insert(map, access.members[i][1], access.members[i][2]),
                               access, i + 1)

visit_map_Partial(access) ==
    visit_entries_Partial(with_capacity(unwrap_or(access.hint, 0)), access, 1)

\* RegistOrderMapVisitor::visit_map
visit_map(access) ==
    visit_entries(with_capacity(unwrap_or(access.hint, 0)), access, 1)

\* Deserialize::deserialize: the deserializer drives the visitor.
deserialize(access) == visit_map(access)

\* ---------------------------------------------------------------- state
VARIABLES
    map,      \* the client's RegistOrderMap
    origin,   \* how map was constructed: "new", "with_capacity", "from", "deserialize"
    given,    \* the pairs of the constructing array or reader, in order
    hist,     \* the pairs inserted since construction, in order
    last,     \* the last operation called, its arguments and what it returned
    twin      \* the clone of map, if the client made one

vars == <<map, origin, given, hist, last, twin>>

\* No clone yet.
NoTwin == [made |-> FALSE]
\* The pairs inserted into the clone.
TwinHist == IF twin.made THEN twin.hist ELSE <<>>

Init ==
    /\ map = new
    /\ origin = "new"
    /\ given = <<>>
    /\ hist = <<>>
    /\ last = [op |-> "new"]
    /\ twin = NoTwin

\* A map that has been given nothing yet and has no clone: where the client
\* constructs.
Fresh == origin = "new" /\ hist = <<>> /\ ~twin.made

Hints == {None} \cup {Some(n) : n \in 0..MaxCap}
ReaderFaults(members) == {None} \cup {Some(c) : c \in 1..(Len(members) + 1)}
WriterFaults(self) == {None} \cup {Some(c) : c \in 0..(len(self) + 1)}

\* ---------------------------------------------------------------- actions
\* let map = RegistOrderMap::new();
New ==
    /\ Fresh
    /\ map' = new
    /\ origin' = "new"
    /\ given' = <<>>
    /\ hist' = <<>>
    /\ last' = [op |-> "new"]
    /\ UNCHANGED twin

\* let map = RegistOrderMap::with_capacity(n);
WithCapacity ==
    /\ Fresh
    /\ \E n \in 0..MaxCap :
          /\ map' = with_capacity(n)
          /\ origin' = "with_capacity"
          /\ given' = <<>>
          /\ hist' = <<>>
          /\ last' = [op |-> "with_capacity", capacity |-> n]
    /\ UNCHANGED twin

\* let map = RegistOrderMap::from(arr);
From ==
    /\ Fresh
    /\ \E arr \in Arrays :
          /\ map' = from(arr)
          /\ origin' = "from"
          /\ given' = arr
          /\ hist' = <<>>
          /\ last' = [op |-> "from", arr |-> arr]
    /\ UNCHANGED twin

\* map.insert(k, v);
Insert ==
    /\ Len(given) + Len(hist) + Len(TwinHist) < MaxPairs
    /\ \E k \in Keys, v \in Vals :
          /\ map' = insert(map, k, v)
          /\ hist' = Append(hist, <<k, v>>)
          /\ last' = [op |-> "insert", k |-> k, v |-> v, pre |-> map]
    /\ UNCHANGED <<origin, given, twin>>

\* map.get(&k)
Get ==
    /\ \E k \in Keys :
          last' = [op |-> "get", k |-> k, ret |-> get(map, k), pre |-> map]
    /\ UNCHANGED <<map, origin, given, hist, twin>>

\* map.len()
LenOp ==
    /\ last' = [op |-> "len", ret |-> len(map), pre |-> map]
    /\ UNCHANGED <<map, origin, given, hist, twin>>

\* map.is_empty()
IsEmpty ==
    /\ last' = [op |-> "is_empty", ret |-> is_empty(map), pre |-> map]
    /\ UNCHANGED <<map, origin, given, hist, twin>>

\* map.serialize(writer)
Serialize ==
    /\ \E fault \in WriterFaults(map) :
          last' = [op |-> "serialize", out |-> serialize(map, fault), pre |-> map]
    /\ UNCHANGED <<map, origin, given, hist, twin>>

\* let mut it = map.iter(); a finished iterator's items are remembered, to
\* compare the next iterator with.
IterStart ==
    /\ last' = [op |-> "iter", it |-> Iter(map), yielded |-> <<>>, ended |-> FALSE,
                prev |-> IF last.op = "iter" /\ last.ended
                         THEN Some(last.yielded) ELSE None,
                pre |-> map]
    /\ UNCHANGED <<map, origin, given, hist, twin>>

\* it.next(), while the iterator borrows the map: any other operation ends
\* the borrow.
IterNext ==
    /\ last.op = "iter"
    /\ LET r == next(last.it)
       IN  last' = [last EXCEPT !.it = r.it,
                                !.yielded = IF r.item.some THEN Append(@, r.item.val)
                                            ELSE @,
                                !.ended = ~r.item.some]
    /\ UNCHANGED <<map, origin, given, hist, twin>>

\* format!("{:?}", map)
Debug ==
    /\ last' = [op |-> "debug", ret |-> fmt(map), pre |-> map]
    /\ UNCHANGED <<map, origin, given, hist, twin>>

\* let twin = map.clone(); the clone remembers the map it was made of and how
\* many inserts that map had seen.
Clone ==
    /\ ~twin.made
    /\ twin' = [made |-> TRUE, val |-> clone(map), at |-> map, n |-> Len(hist),
                hist |-> <<>>]
    /\ last' = [op |-> "clone", pre |-> map]
    /\ UNCHANGED <<map, origin, given, hist>>

\* twin.insert(k, v);
InsertClone ==
    /\ twin.made
    /\ Len(given) + Len(hist) + Len(TwinHist) < MaxPairs
    /\ \E k \in Keys, v \in Vals :
          /\ twin' = [twin EXCEPT !.val = insert(@, k, v),
                                  !.hist = Append(@, <<k, v>>)]
          /\ last' = [op |-> "insert_clone", k |-> k, v |-> v, pre |-> map]
    /\ UNCHANGED <<map, origin, given, hist>>

\* let map = RegistOrderMap::deserialize(..)?: on Ok the client holds the new
\* map, on Err it has no new map and keeps the one it had. A read-back
\* remembers the map that was serialized.
Deserialize(access, readback) ==
    LET r == deserialize(access)
    IN  IF r.ok
        THEN /\ map' = r.val
             /\ origin' = "deserialize"
             /\ given' = access.members
             /\ hist' = <<>>
             /\ last' = IF readback
                        THEN [op |-> "deserialize", ok |-> TRUE, readback |-> TRUE,
                              fault |-> access.fault, ret |-> r, of |-> map]
                        ELSE [op |-> "deserialize", ok |-> TRUE, readback |-> FALSE,
                              fault |-> access.fault, ret |-> r]
             /\ UNCHANGED twin
        ELSE /\ last' = [op |-> "deserialize", ok |-> FALSE, readback |-> readback,
                         fault |-> access.fault, ret |-> r, pre |-> map]
             /\ UNCHANGED <<map, origin, given, hist, twin>>

\* Deserializing an input written by anyone.
DeserializeInput ==
    /\ Fresh
    /\ \E members \in Arrays :
       \E hint \in Hints :
       \E fault \in ReaderFaults(members) :
          Deserialize(Reader(members, hint, fault), FALSE)

\* Deserializing what the last serialize call wrote: the format yields the
\* members back in the order they were written, and decodes each.
DeserializeOutput ==
    /\ last.op = "serialize"
    /\ last.out.ok
    /\ \E hint \in {None, last.out.declared} :
          Deserialize(Reader(last.out.members, hint, None), TRUE)

Next ==
    \/ New
    \/ WithCapacity
    \/ From
    \/ Insert
    \/ Get
    \/ LenOp
    \/ IsEmpty
    \/ Serialize
    \/ DeserializeInput
    \/ DeserializeOutput

\* The map's own operations and its serde implementations.
Spec == Init /\ [][Next]_vars

\* Iterating and formatting maps built by the constructors and by insert.
NextIter ==
    \/ New
    \/ WithCapacity
    \/ From
    \/ Insert
    \/ IterStart
    \/ IterNext
    \/ Debug

SpecIter == Init /\ [][NextIter]_vars

\* Cloning a map built by the constructors and by insert, and inserting into
\* the map and into its clone.
NextClone ==
    \/ New
    \/ WithCapacity
    \/ From
    \/ Insert
    \/ Clone
    \/ InsertClone

SpecClone == Init /\ [][NextClone]_vars

\* ---------------------------------------------------------------- what the claims speak of
KeysOf(pairs) == {pairs[i][1] : i \in 1..Len(pairs)}

\* The keys the map was ever given, by its constructor or by insert.
GivenKeys == KeysOf(given) \cup KeysOf(hist)

\* The map started empty: every entry came from an insert.
FromEmpty == origin \in {"new", "with_capacity"}

NoDupKeys(self) ==
    \A i, j \in 1..len(self) :
        i # j => self.entries.items[i].key # self.entries.items[j].key

KeySeq(it) == [i \in 1..Len(it) |-> it[i][1]]

IsPrefix(s, t) == Len(s) <= Len(t) /\ SubSeq(t, 1, Len(s)) = s

\* The value of the last pair of `pairs` with key k.
LastValue(pairs, k) ==
    LET i == CHOOSE i \in 1..Len(pairs) :
                 /\ pairs[i][1] = k
                 /\ \A j \in (i + 1)..Len(pairs) : pairs[j][1] # k
    IN  pairs[i][2]

\* Registration order: the keys of `pairs` in order of first occurrence,
\* each with the value of its last occurrence.
Registered(pairs) ==
    LET F == {i \in 1..Len(pairs) : \A j \in 1..(i - 1) : pairs[j][1] # pairs[i][1]}
        nth(r) == CHOOSE i \in F : Cardinality({j \in F : j < i}) = r - 1
    IN  [r \in 1..Cardinality(F) |->
            <<pairs[nth(r)][1], LastValue(pairs, pairs[nth(r)][1])>>]

\* new() followed by insert(key, value) for each pair, in order.
RECURSIVE InsertEach(_, _, _)
InsertEach(self, pairs, i) ==
    IF i > Len(pairs) THEN self
    ELSE InsertEach(insert(self, pairs[i][1], pairs[i][2]), pairs, i + 1)

\* ---------------------------------------------------------------- claims
\* C1: in every reachable state of a map, however it was constructed (new,
\* with_capacity, from an array, repeated keys included) and whatever was
\* inserted since, no two entries have equal keys.
C1_KeysDistinct == NoDupKeys(map)

\* C2: a map constructed from an array is the map obtained from new() by
\* inserting each pair in array order: a repeated key appears once, at its
\* first position, with its last value; len() is the number of distinct keys
\* and get(k) is the last value given for k.
C2_FromIsInsertEach ==
    last.op = "from" =>
        /\ iter(map) = iter(InsertEach(new, last.arr, 1))
        /\ iter(map) = Registered(last.arr)
        /\ len(map) = Cardinality(KeysOf(last.arr))
        /\ \A k \in KeysOf(last.arr) : get(map, k) = Some(LastValue(last.arr, k))

\* C3: in any reachable state, right after insert(k, v), get(k) returns v.
C3_InsertThenGet ==
    last.op = "insert" => get(map, last.k) = Some(last.v)

\* C3 witness: an insert that overwrote a different value, in a map that
\* holds a repeated key.
C3_Witness ==
    /\ last.op = "insert"
    /\ ~NoDupKeys(last.pre)
    /\ get(last.pre, last.k).some
    /\ get(last.pre, last.k) # Some(last.v)

\* C4: insert(k, v) with k present makes the value of k be v and leaves
\* len() and the sequence of keys of iter() as they were: k keeps its index.
C4_UpdateKeepsPosition ==
    (last.op = "insert" /\ find(last.pre, last.k).some) =>
        /\ get(map, last.k) = Some(last.v)
        /\ len(map) = len(last.pre)
        /\ KeySeq(iter(map)) = KeySeq(iter(last.pre))
        /\ find(map, last.k) = find(last.pre, last.k)

\* C4 witness: a key that is not the last entry is given a new value.
C4_Witness ==
    /\ last.op = "insert"
    /\ find(last.pre, last.k).some
    /\ find(last.pre, last.k).val < len(last.pre)
    /\ get(last.pre, last.k) # Some(last.v)

C6_MissIsNone ==
    /\ \A k \in Keys \ GivenKeys : get(map, k) = None
    /\ last.op \in {"new", "with_capacity"} => \A k \in Keys : get(map, k) = None
    /\ last.op = "get" =>
          /\ map = last.pre
          /\ last.k \notin GivenKeys => last.ret = None

\* C6 witness: a miss on a map of two or more entries.
C6_Witness ==
    /\ last.op = "get"
    /\ last.k \notin GivenKeys
    /\ len(map) >= 2

\* C7: deserializing the serialization of a map M with no duplicate keys
\* succeeds and yields the same keys, the same value for each key and the
\* same iteration order as M.
C7_RoundTrip ==
    (last.op = "deserialize" /\ last.readback) =>
        /\ last.ok
        /\ NoDupKeys(last.of) =>
              /\ iter(map) = iter(last.of)
              /\ \A k \in Keys : get(map, k) = get(last.of, k)

\* C7 witness: a read-back of a map of two or more distinct keys.
C7_Witness ==
    /\ last.op = "deserialize"
    /\ last.readback
    /\ last.ok
    /\ NoDupKeys(last.of)
    /\ len(last.of) >= 2

C9_SerializeInOrder ==
    last.op = "serialize" =>
        /\ map = last.pre
        /\ last.out.declared = Some(len(map))
        /\ IsPrefix(last.out.members, iter(map))
        /\ last.out.ok => last.out.members = iter(map)

\* C9 witness: a successful serialization of two or more entries.
C9_Witness ==
    /\ last.op = "serialize"
    /\ last.out.ok
    /\ len(map) >= 2

\* C10: from an empty map, len() is the number of distinct keys inserted so
\* far; an insert adds 1 to len() when the key was absent and 0 when it was
\* present; is_empty() is true exactly when len() is 0.
C10_LenAccounting ==
    /\ FromEmpty => len(map) = Cardinality(KeysOf(hist))
    /\ last.op = "insert" =>
          len(map) = len(last.pre) + (IF find(last.pre, last.k).some THEN 0 ELSE 1)
    /\ is_empty(map) <=> len(map) = 0
    /\ (last.op = "len" /\ FromEmpty) => last.ret = Cardinality(KeysOf(hist))
    /\ last.op = "is_empty" => (last.ret <=> len(map) = 0)

\* C10 witness: the third insert into an empty map repeats a key.
C10_Witness ==
    /\ last.op = "insert"
    /\ FromEmpty
    /\ Len(hist) >= 3
    /\ find(last.pre, last.k).some

\* C11: deserialization returns Err, and no map, exactly when a next_entry
\* call of the reader fails, at whatever point of the member sequence, the
\* entries inserted before the failure being dropped; when no call fails it
\* returns Ok with the map.
C11_AllOrNothing ==
    last.op = "deserialize" =>
        /\ last.ok <=> ~last.fault.some
        /\ last.ret.ok = last.ok
        /\ last.ok => last.ret = Ok(map)
        /\ ~last.ok => /\ last.ret = Err
                       /\ map = last.pre

\* C11 witness: the reader fails on its third call, after it has yielded
\* two members.
C11_Witness ==
    /\ last.op = "deserialize"
    /\ ~last.ok
    /\ last.fault.val = 3

C13_CapacityIsAHint ==
    /\ last.op = "with_capacity" =>
          /\ len(map) = 0
          /\ is_empty(map)
          /\ \A k \in Keys : get(map, k) = None
    /\ origin = "with_capacity" =>
          LET plain == InsertEach(new, hist, 1)
          IN  /\ len(map) = len(plain)
              /\ is_empty(map) = is_empty(plain)
              /\ iter(map) = iter(plain)
              /\ \A k \in Keys : get(map, k) = get(plain, k)

\* C13 witness: after two or more inserts the map from with_capacity and the
\* map from new() hold different capacities.
C13_Witness ==
    /\ origin = "with_capacity"
    /\ Len(hist) >= 2
    /\ map.entries.cap # InsertEach(new, hist, 1).entries.cap

C16_IterFiniteRestartable ==
    last.op = "iter" =>
        /\ map = last.pre
        /\ Len(last.yielded) <= len(map)
        /\ \A i \in 1..Len(last.yielded) :
              last.yielded[i] = <<map.entries.items[i].key, map.entries.items[i].val>>
        /\ last.ended => Len(last.yielded) = len(map)
        /\ last.prev.some =>
              /\ IsPrefix(last.yielded, last.prev.val)
              /\ last.ended => last.yielded = last.prev.val

\* C16 witness: a second iterator has run to its end over two or more
\* entries.
C16_Witness ==
    /\ last.op = "iter"
    /\ last.ended
    /\ last.prev.some
    /\ len(map) >= 2

\* The number of places where the text w occurs in the text s.
Occurrences(s, w) ==
    Cardinality({i \in 1..(Len(s) - Len(w) + 1) : SubSeq(s, i, i + Len(w) - 1) = w})

\* A list of the pairs, each shown with its key and its value, first to last.
RECURSIVE Listing(_)
Listing(pairs) ==
    IF pairs = <<>> THEN ""
    ELSE LET n == Len(pairs)
             item == "Entry { key: \"" \o pairs[n][1] \o "\", val: "
                     \o ToString(pairs[n][2]) \o " }"
         IN  IF n = 1 THEN item
             ELSE Listing(SubSeq(pairs, 1, n - 1)) \o ", " \o item

\* C17: the debug representation lists the entries of the map, one item per
\* entry with its key and its value, in the order of iter(); for the map of
\* test_debug it is the text the test expects.
C17_DebugListsEntries ==
    last.op = "debug" =>
        /\ map = last.pre
        /\ last.ret = "[" \o Listing(iter(map)) \o "]"
        /\ Occurrences(last.ret, "Entry {") = len(map)
        /\ Occurrences(last.ret, "key: ") = len(map)
        /\ Occurrences(last.ret, "val: ") = len(map)
        /\ iter(map) = << <<"key2", 20>>, <<"key1", 10>> >> =>
              last.ret = "[Entry { key: \"key2\", val: 20 }, Entry { key: \"key1\", val: 10 }]"

\* C17 witness: the map of test_debug is formatted.
C17_Witness ==
    /\ last.op = "debug"
    /\ iter(map) = << <<"key2", 20>>, <<"key1", 10>> >>

\* C14: a clone starts with the entries of the original, in the same order;
\* from then on the inserts into one map leave the len(), get results and
\* iter() of the other as they would be had those inserts never happened:
\* the original is the cloned map plus its own later inserts, the clone is
\* the cloned map plus the clone's inserts.
C14_CloneIndependent ==
    twin.made =>
        LET since == SubSeq(hist, twin.n + 1, Len(hist))
            alone == InsertEach(twin.at, since, 1)
            talone == InsertEach(twin.at, twin.hist, 1)
        IN  /\ last.op = "clone" =>
                  /\ iter(twin.val) = iter(map)
                  /\ len(twin.val) = len(map)
                  /\ \A k \in Keys : get(twin.val, k) = get(map, k)
            /\ last.op = "insert_clone" => map = last.pre
            /\ iter(map) = iter(alone)
            /\ len(map) = len(alone)
            /\ \A k \in Keys : get(map, k) = get(alone, k)
            /\ iter(twin.val) = iter(talone)
            /\ len(twin.val) = len(talone)
            /\ \A k \in Keys : get(twin.val, k) = get(talone, k)

\* C14 witness: a non-empty map was cloned, and both the map and the clone
\* were inserted into since, so that they differ.
C14_Witness ==
    /\ twin.made
    /\ len(twin.at) >= 1
    /\ Len(hist) > twin.n
    /\ Len(twin.hist) >= 1
    /\ iter(map) # iter(twin.val)
====
